---- MODULE Spec2Model ----
(***************************************************************************)
(* Usage aggregation and time bucketing of the billing API                 *)
(* (billing-api/billing_server/billing/__init__.py).                       *)
(*                                                                         *)
(* An instant (a Python datetime) is an integer count of ticks since       *)
(* 1970-01-01 00:00, TicksPerDay ticks to the day.  A formatted date (the  *)
(* result of isoformat) is the record of its calendar fields; parse turns  *)
(* such a record back into an instant.                                     *)
(***************************************************************************)
EXTENDS Integers, Sequences, FiniteSets, TLC

\* ------------------------------------------------------------------------
\* Bounds of the model
\* ------------------------------------------------------------------------

\* resolution of the time of day
TicksPerDay == 2

\* requested start dates lie on the days BaseDay .. BaseDay + MaxStartDay
MaxStartDay == 3

\* short ranges: requested end dates on the days BaseDay .. BaseDay + NearDays
NearDays == 6

\* long ranges: requested end dates on the day BaseDay + FarDay (and the
\* midnight after it), far enough for more than query_periods buckets
FarDay == 66

\* a decimal quantity is counted in units of 1/DecimalUnit
DecimalUnit == 2

\* ------------------------------------------------------------------------
\* datetime: the proleptic Gregorian calendar
\* ------------------------------------------------------------------------

\* days from 1970-01-01 to the civil date y-m-d; March is month 0 of the
\* shifted year yy, whose day of the year is doy
DaysFromShifted(yy, doy) ==
    (yy \div 400) * 146097 + (yy % 400) * 365 + (yy % 400) \div 4
    - (yy % 400) \div 100 + doy - 719468

DaysFromCivil(y, m, d) ==
    DaysFromShifted(IF m <= 2 THEN y - 1 ELSE y,
                    (153 * (IF m > 2 THEN m - 3 ELSE m + 9) + 2) \div 5 + d - 1)

\* the civil date of day number z, as [year, month, day]
CivilOfMonth(y, m, d) == [year |-> IF m <= 2 THEN y + 1 ELSE y, month |-> m, day |-> d]

CivilOfMp(y, doy, mp) ==
    CivilOfMonth(y, IF mp < 10 THEN mp + 3 ELSE mp - 9, doy - (153 * mp + 2) \div 5 + 1)

CivilOfDoy(y, doy) == CivilOfMp(y, doy, (5 * doy + 2) \div 153)

CivilOfYoe(era, doe, yoe) ==
    CivilOfDoy(yoe + era * 400, doe - (365 * yoe + yoe \div 4 - yoe \div 100))

CivilOfDoe(era, doe) ==
    CivilOfYoe(era, doe, (doe - doe \div 1460 + doe \div 36524 - doe \div 146096) \div 365)

CivilOfDay(z) == CivilOfDoe((z + 719468) \div 146097, (z + 719468) % 146097)

\* the days whose calendar fields the model reads: those of the requests,
\* back to the start of their year and on past the next two yearly boundaries
CalendarDays ==
    (DaysFromCivil(2024, 1, 1))..(DaysFromCivil(2024, 12, 28) + FarDay + 800)

\* the calendar, worked out once for the days the model reads
CivilTable == [z \in CalendarDays |-> CivilOfDay(z)]

CivilFromDays(z) == CivilTable[z]

IsLeap(y) == (y % 4 = 0 /\ y % 100 # 0) \/ y % 400 = 0

DaysInMonth(y, m) ==
    IF m = 2 THEN (IF IsLeap(y) THEN 29 ELSE 28)
    ELSE IF m \in {4, 6, 9, 11} THEN 30 ELSE 31

\* datetime.weekday(): Monday is 0, Sunday is 6 (1970-01-01 was a Thursday)
Weekday(z) == (z + 3) % 7

\* the day number and the time of day of an instant
DayOf(t) == t \div TicksPerDay

TimeOf(t) == t % TicksPerDay

\* the calendar fields of an instant
Civil(t) == CivilFromDays(DayOf(t))

Year(t) == Civil(t).year

Month(t) == Civil(t).month

DayOfMonth(t) == Civil(t).day

\* datetime(year=.., month=.., day=..): midnight of a civil date
Midnight(y, m, d) == DaysFromCivil(y, m, d) * TicksPerDay

\* datetime(year=d.year, month=d.month, day=d.day) from the fields c of d
MidnightOf(c) == Midnight(c.year, c.month, c.day)

\* datetime.isocalendar(): <<ISO year, ISO week>>; the week belongs to the
\* year iy that holds its Thursday thu
IsoOfYear(thu, iy) == <<iy, (thu - DaysFromCivil(iy, 1, 1)) \div 7 + 1>>

IsoOfThursday(thu) == IsoOfYear(thu, CivilFromDays(thu).year)

IsoCalendar(t) == IsoOfThursday(DayOf(t) - Weekday(DayOf(t)) + 3)

\* datetime.isoformat(): the calendar fields that the string spells out
IsoFields(c, tod) == [year |-> c.year, month |-> c.month, day |-> c.day, time |-> tod]

IsoFormat(t) == IsoFields(Civil(t), TimeOf(t))

\* dateutil.parser.parse of a string written by isoformat
Parse(s) == DaysFromCivil(s.year, s.month, s.day) * TicksPerDay + s.time

\* dateutil.relativedelta
\* d + relativedelta(days=+n)
PlusDays(t, n) == t + n * TicksPerDay

\* the civil date y-m-d with the day clipped to the month's length
Clipped(y, m, d, len) == DaysFromCivil(y, m, IF d > len THEN len ELSE d)

\* d + relativedelta(months=+1), from the fields c and the time of day of d
MonthAfter(c, tod) ==
    IF c.month = 12
    THEN Clipped(c.year + 1, 1, c.day, DaysInMonth(c.year + 1, 1)) * TicksPerDay + tod
    ELSE Clipped(c.year, c.month + 1, c.day, DaysInMonth(c.year, c.month + 1))
         * TicksPerDay + tod

PlusOneMonth(t) == MonthAfter(Civil(t), TimeOf(t))

\* d + relativedelta(years=+1): February 29 is clipped to February 28
YearAfter(c, tod) ==
    Clipped(c.year + 1, c.month, c.day, DaysInMonth(c.year + 1, c.month)) * TicksPerDay
    + tod

PlusOneYear(t) == YearAfter(Civil(t), TimeOf(t))

\* d + relativedelta(weekday=MO(-1)): the last Monday at or before d
LastMonday(t) == t - Weekday(DayOf(t)) * TicksPerDay

\* the first Monday after d, a Monday going on by a whole week
MondayAfter(t) == t + (7 - Weekday(DayOf(t))) * TicksPerDay

\* d + relativedelta(weekday=MO(+1)): the first Monday at or after d
FirstMonday(t) == t + ((7 - Weekday(DayOf(t))) % 7) * TicksPerDay

\* ------------------------------------------------------------------------
\* get_bucket_functions
\* ------------------------------------------------------------------------

\* a weekly test that compares the week numbers and forgets the ISO year
SameWeekNumber(start_iso, end_iso) == start_iso[2] = end_iso[2]

\* same_bucket(start, end) of the strategy chosen for bucket_size
SameIsoWeek(start_iso, end_iso) ==
    start_iso[1] = end_iso[1] /\ start_iso[2] = end_iso[2]

SameFields(size, s, e) ==
    IF size = "yearly"
    THEN s.year = e.year
    ELSE IF size = "monthly"
    THEN s.year = e.year /\ s.month = e.month
    ELSE s.year = e.year /\ s.month = e.month /\ s.day = e.day

same_bucket(size, start, end) ==
    IF size = "weekly"
    THEN SameIsoWeek(IsoCalendar(start), IsoCalendar(end))
    ELSE SameFields(size, Civil(start), Civil(end))

\* start_of_bucket(current_date) of the strategy chosen for bucket_size
StartOfFields(size, c) ==
    IF size = "yearly"
    THEN Midnight(c.year, 1, 1)
    ELSE IF size = "monthly"
    THEN Midnight(c.year, c.month, 1)
    ELSE Midnight(c.year, c.month, c.day)

start_of_bucket(size, current_date) ==
    IF size = "weekly"
    THEN MidnightOf(Civil(LastMonday(current_date)))
    ELSE StartOfFields(size, Civil(current_date))

\* next_bucket(date_to_change) of the strategy chosen for bucket_size
FirstOfYear(c) == Midnight(c.year, 1, 1)

FirstOfMonth(c) == Midnight(c.year, c.month, 1)

next_bucket(size, date_to_change) ==
    IF size = "weekly"
    THEN MidnightOf(Civil(FirstMonday(PlusDays(date_to_change, 1))))
    ELSE IF size = "yearly"
    THEN FirstOfYear(Civil(PlusOneYear(date_to_change)))
    ELSE IF size = "monthly"
    THEN FirstOfMonth(Civil(PlusOneMonth(date_to_change)))
    ELSE MidnightOf(Civil(PlusDays(date_to_change, 1)))

\* ------------------------------------------------------------------------
\* Configuration and inputs
\* ------------------------------------------------------------------------

\* app.config['VALID_BUCKET_SIZES']
valid_bucket_sizes == {"daily", "weekly", "monthly", "yearly"}

\* Python's None, where it stands for a string: a request parameter that is
\* not given, the user of an image record
None == "<None>"

\* the bucket-size names a request may carry
BucketNames == valid_bucket_sizes \cup {"hourly", None}

\* Saturday 2024-12-28: the days after it hold an ISO week that crosses the
\* year, a month end and a year end
BaseDay == DaysFromCivil(2024, 12, 28)

\* the instant k ticks into the day BaseDay + d
At(d, k) == (BaseDay + d) * TicksPerDay + k

\* one entry of app.config['PRICING_PERIODS'], dates already parsed; prices
\* are in units of 0.00001
Period(from, to, n) ==
    [period_start |-> from, period_end |-> to,
     cpu_price |-> 12345 + n, volume_price |-> 2000 + n, image_price |-> 300 + n]

\* no period at all
NoPeriods == << >>

\* one period that covers every date of the model
OnePeriod == << Period(At(0 - 30, 0), At(400, 0), 0) >>

\* two adjoining periods that meet at midday; the last one ends inside the
\* model's dates, so that later dates find the list exhausted
TwoPeriods ==
    << Period(At(0 - 30, 0), At(2, 1), 0), Period(At(2, 1), At(5, 0), 1) >>

\* two periods that ended before some of the start dates, then a gap of
\* half a day before the third
GapPeriods ==
    << Period(At(0 - 30, 0), At(0 - 20, 0), 0), Period(At(0 - 20, 0), At(1, 0), 1),
       Period(At(1, 1), At(400, 0), 2) >>

\* sorted by period_start, but the second period lies inside the first
NestedPeriods ==
    << Period(At(0 - 30, 0), At(3, 0), 0), Period(At(0, 0), At(1, 0), 1),
       Period(At(3, 0), At(400, 0), 2) >>

\* two periods that had both ended before most of the start dates
EndedPeriods ==
    << Period(At(0 - 30, 0), At(0 - 20, 0), 0), Period(At(0 - 20, 0), At(0, 1), 1) >>

PricingTables ==
    {NoPeriods, OnePeriod, TwoPeriods, GapPeriods, NestedPeriods, EndedPeriods}

StartDates == {At(d, k) : d \in 0..MaxStartDay, k \in 0..(TicksPerDay - 1)}

EndDates ==
    {At(d, k) : d \in 0..(NearDays - 1), k \in 0..(TicksPerDay - 1)}
    \cup {At(NearDays, 0)}
    \cup {At(FarDay, k) : k \in 0..(TicksPerDay - 1)} \cup {At(FarDay + 1, 0)}

\* ------------------------------------------------------------------------
\* State
\* ------------------------------------------------------------------------

VARIABLES
    pc,                  \* where the request stands
    app_pricing_periods, \* app.pricing_periods, the configured table
    start_date,          \* divide_time_range: start_date
    end_date,            \* divide_time_range: end_date
    bucket_size,         \* divide_time_range: bucket_size
    pricing_periods,     \* the iterator: how many periods it has handed out
    next_period,         \* index of next_period in the table, 0 for None
    period,              \* index of period in the table, 0 for None
    query_periods,       \* buckets that may still be added without eviction
    date_ranges,         \* the result list
    requested_start,     \* history: start_date as the caller passed it
    requested_bucket,    \* history: bucket_size as the caller passed it
    walk,                \* history: every bucket appended, with its cursor
    usage,               \* the rows of the usage database
    user_id,             \* generate_report_data: the caller
    requested_user,      \* history: the 'user' parameter of the request
    user,                \* generate_report_data: user
    project_list,        \* generate_report_data: project_list
    role_map,            \* generate_report_data: role_map
    billing_projects,    \* generate_report_data: billing_projects
    user_projects,       \* generate_report_data: user_projects
    bucket_range,        \* index in date_ranges of the fetch loop
    responses,           \* generate_report_data: responses
    folded,              \* how many responses reduce has folded
    report,              \* the accumulator of reduce, then the entries
    fetches,             \* history: the arguments of every usage query
    applied,             \* the bucket functions applied by themselves: the
                         \* arguments and what was returned
    calls,               \* the locals of each of two calls of
                         \* divide_time_range that run side by side
    iterators            \* the iterator objects these calls have made: how
                         \* many periods each has handed out

divide_vars ==
    <<app_pricing_periods, start_date, end_date, bucket_size, pricing_periods,
      next_period, period, query_periods, date_ranges, requested_start,
      requested_bucket, walk>>

report_vars ==
    <<usage, user_id, requested_user, user, project_list, role_map,
      billing_projects, user_projects, bucket_range, responses, folded, report,
      fetches>>

probe_vars == <<applied, calls, iterators>>

vars == <<pc, divide_vars, report_vars, probe_vars>>

\* ------------------------------------------------------------------------
\* divide_time_range
\* ------------------------------------------------------------------------

\* next(pricing_periods, None): the index handed out, 0 for None
IterNext(consumed) ==
    IF consumed < Len(app_pricing_periods) THEN consumed + 1 ELSE 0

\* the iterator after next(pricing_periods, None)
IterAfter(consumed) ==
    IF consumed < Len(app_pricing_periods) THEN consumed + 1 ELSE consumed

\* the loop test of the positioning loop and the test of the walk's cursor
\* step: start_date >= period['period_end'] and next_period is not None
PeriodIsOver ==
    start_date >= app_pricing_periods[period].period_end /\ next_period # 0

\* a bucket size that is passed on as it was given
ResolvedAsGiven(size) == size

\* the bucket size that divide_time_range works with and returns: 'daily'
\* for a name that is not in app.valid_bucket_sizes
Resolved(size) == IF size \in valid_bucket_sizes THEN size ELSE "daily"

\* the entry of divide_time_range up to the first test of the positioning
\* loop: the bucket size falls back to daily, the cursor takes the first period
Enter ==
    /\ pc = "call"
    /\ bucket_size' = Resolved(bucket_size)
    /\ next_period' = IterNext(pricing_periods)
    /\ pricing_periods' = IterAfter(pricing_periods)
    /\ period' = next_period'
    /\ pc' = "position"
    /\ UNCHANGED <<app_pricing_periods, start_date, end_date, query_periods,
                   date_ranges, requested_start, requested_bucket, walk>>
    /\ UNCHANGED report_vars
    /\ UNCHANGED probe_vars

\* with an empty table period is None and period['period_end'] raises
PositionRaises ==
    /\ pc = "position"
    /\ period = 0
    /\ pc' = "raised"
    /\ UNCHANGED divide_vars
    /\ UNCHANGED report_vars
    /\ UNCHANGED probe_vars

\* one turn of the positioning loop
Position ==
    /\ pc = "position"
    /\ period # 0
    /\ PeriodIsOver
    /\ next_period' = IterNext(pricing_periods)
    /\ pricing_periods' = IterAfter(pricing_periods)
    /\ period' = IF next_period' # 0 THEN next_period' ELSE period
    /\ UNCHANGED <<pc, app_pricing_periods, start_date, end_date, bucket_size,
                   query_periods, date_ranges, requested_start, requested_bucket, walk>>
    /\ UNCHANGED report_vars
    /\ UNCHANGED probe_vars

\* query_periods = 62: the most time periods a report is made of
MaxQueryPeriods == 62

\* the positioning loop ends; the walk is set up
Positioned ==
    /\ pc = "position"
    /\ period # 0
    /\ ~PeriodIsOver
    /\ query_periods' = MaxQueryPeriods
    /\ date_ranges' = << >>
    /\ pc' = "walk"
    /\ UNCHANGED <<app_pricing_periods, start_date, end_date, bucket_size,
                   pricing_periods, next_period, period, requested_start,
                   requested_bucket, walk>>
    /\ UNCHANGED report_vars
    /\ UNCHANGED probe_vars

Min2(a, b) == IF a <= b THEN a ELSE b

Min3(a, b, c) == Min2(a, Min2(b, c))

\* the cursor step of one turn of the walk: <<next_period, period, iterator>>
CursorAfter(np) ==
    <<np, IF np # 0 THEN np ELSE period, IterAfter(pricing_periods)>>

\* a walk whose cursor stays where the positioning loop left it
CursorStepStuck == <<next_period, period, pricing_periods>>

CursorStep ==
    IF PeriodIsOver
    THEN CursorAfter(IterNext(pricing_periods))
    ELSE <<next_period, period, pricing_periods>>

\* a bucket end that forgets the end of the requested range
PeriodEndDateNoEnd(p, next_bucket_date) ==
    IF start_date < app_pricing_periods[p].period_end
    THEN Min2(next_bucket_date, app_pricing_periods[p].period_end)
    ELSE next_bucket_date

\* a bucket end that never looks at the calendar boundary
PeriodEndDateNoBoundary(p, next_bucket_date) ==
    IF start_date < app_pricing_periods[p].period_end
    THEN Min2(app_pricing_periods[p].period_end, end_date)
    ELSE end_date

\* a bucket end that never looks at the period's end
PeriodEndDateNoPeriod(p, next_bucket_date) == Min2(next_bucket_date, end_date)

\* a bucket end that counts the period's end in after the period is over
PeriodEndDateOfPeriod(p, next_bucket_date) ==
    Min3(next_bucket_date, app_pricing_periods[p].period_end, end_date)

\* period_end_date of a bucket that starts at start_date under period p
PeriodEndDate(p, next_bucket_date) ==
    IF start_date < app_pricing_periods[p].period_end
    THEN Min3(next_bucket_date, app_pricing_periods[p].period_end, end_date)
    ELSE Min2(next_bucket_date, end_date)

\* a bucket whose start is moved down to the calendar boundary
MakeBucketAligned(p, period_end_date) ==
    [start_date   |-> IsoFormat(start_of_bucket(bucket_size, start_date)),
     end_date     |-> IsoFormat(period_end_date),
     cpu_price    |-> app_pricing_periods[p].cpu_price,
     volume_price |-> app_pricing_periods[p].volume_price,
     image_price  |-> app_pricing_periods[p].image_price]

\* the bucket dict of one turn of the walk
MakeBucket(p, period_end_date) ==
    [start_date   |-> IsoFormat(start_date),
     end_date     |-> IsoFormat(period_end_date),
     cpu_price    |-> app_pricing_periods[p].cpu_price,
     volume_price |-> app_pricing_periods[p].volume_price,
     image_price  |-> app_pricing_periods[p].image_price]

\* a walk that never evicts
AppendedNoEviction(ranges, bucket) == Append(ranges, bucket)

\* a walk that evicts the newest bucket instead of the oldest
AppendedPopLast(ranges, bucket) ==
    IF query_periods > 0 THEN Append(ranges, bucket) ELSE ranges

\* date_ranges after the append and the eviction test
Appended(ranges, bucket) ==
    IF query_periods > 0 THEN Append(ranges, bucket) ELSE Tail(Append(ranges, bucket))

\* a walk that moves on to the calendar boundary instead of the bucket's end
AdvanceToBoundary(period_end_date) == next_bucket(bucket_size, start_date)

\* start_date for the next turn
Advance(period_end_date) == period_end_date

\* the period of this turn's bucket, after the cursor step
TurnPeriod == CursorStep[2]

\* period_end_date of this turn
TurnEnd == PeriodEndDate(TurnPeriod, next_bucket(bucket_size, start_date))

\* one turn of the walk: the cursor step, then the bucket is appended, the
\* oldest one is evicted once query_periods is used up, and start_date moves on
Bucket ==
    /\ pc = "walk"
    /\ start_date # end_date
    /\ next_period' = CursorStep[1]
    /\ period' = TurnPeriod
    /\ pricing_periods' = CursorStep[3]
    /\ date_ranges' = Appended(date_ranges, MakeBucket(TurnPeriod, TurnEnd))
    /\ query_periods' = IF query_periods > 0 THEN query_periods - 1 ELSE query_periods
    /\ start_date' = Advance(TurnEnd)
    /\ walk' = Append(walk, [bucket |-> MakeBucket(TurnPeriod, TurnEnd),
                             cursor |-> TurnPeriod])
    /\ UNCHANGED <<pc, app_pricing_periods, end_date, bucket_size, requested_start,
                   requested_bucket>>
    /\ UNCHANGED report_vars
    /\ UNCHANGED probe_vars

\* the walk ends when start_date == end_date; the result is returned
Return ==
    /\ pc = "walk"
    /\ start_date = end_date
    /\ pc' = "returned"
    /\ UNCHANGED divide_vars
    /\ UNCHANGED report_vars
    /\ UNCHANGED probe_vars

\* the calls that run side by side
Requests == {1, 2}

\* a call that has not been made
Idle ==
    [pc |-> "idle", start_date |-> 0, end_date |-> 0, bucket_size |-> None,
     pricing_periods |-> 0, next_period |-> 0, period |-> 0, query_periods |-> 0,
     date_ranges |-> << >>, requested_start |-> 0, requested_bucket |-> None]

\* neither of them has been made
NoCalls ==
    /\ calls = [r \in Requests |-> Idle]
    /\ iterators = << >>

\* no request has been read yet
NoRequest ==
    /\ user_id = None
    /\ requested_user = None
    /\ user = None
    /\ project_list = << >>
    /\ role_map = << >>
    /\ billing_projects = << >>
    /\ user_projects = << >>
    /\ bucket_range = 1
    /\ responses = << >>
    /\ folded = 0
    /\ report = << >>
    /\ fetches = {}

\* the application is loaded with its pricing table; no call is under way
Init ==
    /\ pc = "idle"
    /\ app_pricing_periods \in PricingTables
    /\ usage = << >>
    /\ start_date = 0
    /\ end_date = 0
    /\ bucket_size = None
    /\ pricing_periods = 0
    /\ next_period = 0
    /\ period = 0
    /\ query_periods = 0
    /\ date_ranges = << >>
    /\ requested_start = 0
    /\ requested_bucket = None
    /\ walk = << >>
    /\ NoRequest
    /\ applied = << >>
    /\ NoCalls

\* a call of divide_time_range(start_date, end_date, bucket_size)
Call ==
    /\ pc = "idle"
    /\ start_date' \in StartDates
    /\ end_date' \in EndDates
    /\ bucket_size' \in BucketNames
    /\ requested_start' = start_date'
    /\ requested_bucket' = bucket_size'
    /\ pc' = "call"
    /\ UNCHANGED <<app_pricing_periods, pricing_periods, next_period, period,
                   query_periods, date_ranges, walk>>
    /\ UNCHANGED report_vars
    /\ UNCHANGED probe_vars

Next ==
    \/ Call
    \/ Enter
    \/ PositionRaises
    \/ Position
    \/ Positioned
    \/ Bucket
    \/ Return

Spec == Init /\ [][Next]_vars

\* the scheduling of a request: the interpreter runs the handler on, so a
\* step that can be taken is taken
FairSpec == Spec /\ WF_vars(Next)

\* ------------------------------------------------------------------------
\* The collaborators of generate_report_data: the role map and the usage store
\* ------------------------------------------------------------------------

\* the authenticated caller and another user
Caller == "alice"

Users == {"alice", "bob"}

\* the projects that exist
Projects == {"p1", "p2", "p3"}

\* the projects in which the caller may hold a role
CallerProjects == {"p1", "p2"}

\* request.args.get('user')
RequestedUsers == {None} \cup Users

\* the project lists a request may name, or the client's own list: none, one,
\* two in either order, one named twice, all three
ProjectLists ==
    { << >>, <<"p1">>, <<"p1", "p2">>, <<"p2", "p1">>, <<"p1", "p1">>,
      <<"p3", "p1", "p2">> }

\* database.get_user_roles(user_id): the caller's roles in the projects where
\* the caller has any
RoleMaps ==
    UNION { [held -> {{"member"}, {"billing", "member"}}] : held \in SUBSET CallerProjects }

\* database.get_username(user)
Username(u) == IF u = "alice" THEN "Alice A." ELSE "Bob B."

\* one row of the usage store; a quantity is a decimal number, counted in
\* units of 1/DecimalUnit
Row(kind, u, project, at, quantity) ==
    [kind |-> kind, user |-> u, projectId |-> project, at |-> at, quantity |-> quantity]

\* usage on both sides of the midday at which TwoPeriods changes its prices,
\* for both users and both projects
MixedUsage ==
    << Row("cpu", "alice", "p1", At(2, 0), 3), Row("cpu", "alice", "p1", At(2, 1), 2),
       Row("volume", "alice", "p1", At(2, 1), 5), Row("cpu", "bob", "p1", At(2, 0), 4),
       Row("image", None, "p1", At(2, 0), 7), Row("image", None, "p1", At(2, 1), 2),
       Row("cpu", "alice", "p2", At(3, 0), 2), Row("image", None, "p2", At(3, 0), 3),
       Row("cpu", "alice", "p3", At(2, 0), 2) >>

\* three items of quantity 1 by one user in one project within one morning
RepeatedUsage ==
    << Row("cpu", "alice", "p1", At(2, 0), DecimalUnit),
       Row("cpu", "alice", "p1", At(2, 0), DecimalUnit),
       Row("cpu", "alice", "p1", At(2, 0), DecimalUnit),
       Row("volume", "bob", "p2", At(1, 1), 3) >>

UsageTables == {MixedUsage, RepeatedUsage}

\* the rows of one kind inside [start, end) that a query may see: every row
\* of the projects in billing, and the user's own rows of the projects in own
Visible(kind, start, end, billing, own, u) ==
    SelectSeq(usage,
              LAMBDA r : /\ r.kind = kind
                         /\ Parse(start) <= r.at
                         /\ r.at < Parse(end)
                         /\ \/ \E i \in 1..Len(billing) : billing[i] = r.projectId
                            \/ /\ r.user = u
                               /\ \E i \in 1..Len(own) : own[i] = r.projectId)

\* database.get_instance_core_hours(start, end, billing_projects, user_projects, user)
get_instance_core_hours(start, end, billing, own, u) ==
    Visible("cpu", start, end, billing, own, u)

\* database.get_volume_gigabyte_hours(start, end, billing_projects, user_projects, user)
get_volume_gigabyte_hours(start, end, billing, own, u) ==
    Visible("volume", start, end, billing, own, u)

\* database.get_image_storage_gigabyte_hours_by_project(start, end, billing_projects)
get_image_storage_gigabyte_hours_by_project(start, end, billing) ==
    Visible("image", start, end, billing, << >>, None)

\* ------------------------------------------------------------------------
\* generate_report_data
\* ------------------------------------------------------------------------

\* the requested projects in which the caller holds the billing role
BillingProjects(projects, roles) ==
    SelectSeq(projects, LAMBDA q : q \in DOMAIN roles /\ "billing" \in roles[q])

\* a partition that sends the projects without any role to user_projects
UserProjectsAnyProject(projects, roles) ==
    SelectSeq(projects, LAMBDA q : ~(q \in DOMAIN roles /\ "billing" \in roles[q]))

\* the requested projects in which the caller holds a role, but not billing
UserProjects(projects, roles) ==
    SelectSeq(projects, LAMBDA q : q \in DOMAIN roles /\ "billing" \notin roles[q])

\* a scope that keeps the caller's own projects when another user is viewed
ScopeKeepingOwn(viewer, caller, billing, own) ==
    IF viewer # None /\ viewer = caller
    THEN << <<"">>, own \o billing, viewer >>
    ELSE IF viewer # None
    THEN << <<"">>, own, viewer >>
    ELSE <<billing, own, caller>>

\* a scope that does not add the billing projects to the caller's own view
ScopeWithoutMerge(viewer, caller, billing, own) ==
    IF viewer # None /\ viewer = caller
    THEN << <<"">>, own, viewer >>
    ELSE IF viewer # None
    THEN << <<"">>, billing, viewer >>
    ELSE <<billing, own, caller>>

\* <<billing_projects, user_projects, user>> after the test of the 'user'
\* parameter
Scope(viewer, caller, billing, own) ==
    IF viewer # None /\ viewer = caller
    THEN << <<"">>, own \o billing, viewer >>
    ELSE IF viewer # None
    THEN << <<"">>, billing, viewer >>
    ELSE <<billing, own, caller>>

\* the dates a report is asked for: from a midday or a midnight, over one or
\* two midnights
ReportStarts == {At(1, 1), At(2, 1)}

ReportEnds == {At(3, 0), At(4, 0)}

\* the request is read, the scope is worked out and divide_time_range is
\* called
Request ==
    /\ pc = "idle"
    /\ \E projects \in ProjectLists, roles \in RoleMaps, viewer \in RequestedUsers :
           /\ project_list' = projects
           /\ role_map' = roles
           /\ requested_user' = viewer
           /\ billing_projects' =
                  Scope(viewer, Caller, BillingProjects(projects, roles),
                        UserProjects(projects, roles))[1]
           /\ user_projects' =
                  Scope(viewer, Caller, BillingProjects(projects, roles),
                        UserProjects(projects, roles))[2]
           /\ user' =
                  Scope(viewer, Caller, BillingProjects(projects, roles),
                        UserProjects(projects, roles))[3]
    /\ user_id' = Caller
    /\ start_date' \in ReportStarts
    /\ end_date' \in ReportEnds
    /\ bucket_size' \in BucketNames
    /\ requested_start' = start_date'
    /\ requested_bucket' = bucket_size'
    /\ pc' = "call"
    /\ UNCHANGED <<app_pricing_periods, pricing_periods, next_period, period,
                   query_periods, date_ranges, walk, usage, bucket_range,
                   responses, folded, report, fetches>>
    /\ UNCHANGED probe_vars

\* a fromDate or toDate that cannot be parsed: BadRequestError, before any
\* other work
BadRequest ==
    /\ pc = "idle"
    /\ pc' = "bad_request"
    /\ UNCHANGED <<divide_vars, report_vars>>
    /\ UNCHANGED probe_vars

\* a row of the usage store as a record of responses, for the bucket b
Record(r, b, price) ==
    [kind |-> r.kind, user |-> r.user, projectId |-> r.projectId,
     quantity |-> r.quantity, fromDate |-> b.start_date, toDate |-> b.end_date,
     price |-> price,
     username |-> IF r.user = None THEN None ELSE Username(r.user)]

Records(rows, b, price) == [i \in 1..Len(rows) |-> Record(rows[i], b, price)]

\* a turn that asks for the images of the user's projects as well
FetchedImagesOfAll(b) ==
    Records(get_instance_core_hours(b.start_date, b.end_date, billing_projects,
                                    user_projects, user), b, b.cpu_price)
    \o Records(get_volume_gigabyte_hours(b.start_date, b.end_date, billing_projects,
                                         user_projects, user), b, b.volume_price)
    \o Records(get_image_storage_gigabyte_hours_by_project(b.start_date, b.end_date,
                                                         billing_projects \o user_projects),
               b, b.image_price)

\* the records that one turn of the loop over date_ranges appends
Fetched(b) ==
    Records(get_instance_core_hours(b.start_date, b.end_date, billing_projects,
                                    user_projects, user), b, b.cpu_price)
    \o Records(get_volume_gigabyte_hours(b.start_date, b.end_date, billing_projects,
                                         user_projects, user), b, b.volume_price)
    \o Records(get_image_storage_gigabyte_hours_by_project(b.start_date, b.end_date,
                                                         billing_projects),
               b, b.image_price)

\* the arguments of the three queries of one turn
Queries(b) ==
    { [query |-> "cpu", start |-> b.start_date, end |-> b.end_date,
       billing |-> billing_projects, own |-> user_projects, user |-> user],
      [query |-> "volume", start |-> b.start_date, end |-> b.end_date,
       billing |-> billing_projects, own |-> user_projects, user |-> user],
      [query |-> "image", start |-> b.start_date, end |-> b.end_date,
       billing |-> billing_projects, own |-> << >>, user |-> None] }

\* one turn of the loop over date_ranges: three queries, their records
\* appended in the order cpu, volume, image
FetchBucket ==
    /\ pc = "returned"
    /\ bucket_range <= Len(date_ranges)
    /\ responses' = responses \o Fetched(date_ranges[bucket_range])
    /\ fetches' = fetches \cup Queries(date_ranges[bucket_range])
    /\ bucket_range' = bucket_range + 1
    /\ UNCHANGED <<pc, divide_vars, usage, user_id, requested_user, user,
                   project_list, role_map, billing_projects, user_projects,
                   folded, report>>
    /\ UNCHANGED probe_vars

\* parse_decimal of a decimal quantity: int(obj), the whole part
parse_decimal(quantity) == quantity \div DecimalUnit

\* round(x, 4) of an amount x counted in units of 0.00001, in units of 0.0001
Round4(x) == (x + 5) \div 10

\* round(parse_decimal(item[kind]) * item[kind + 'Price'], 4)
Cost(item) == Round4(parse_decimal(item.quantity) * item.price)

\* an entry is compared by its fromDate alone, not by its bucket
MatchesSameStart(report_item, item) ==
    /\ report_item.user = item.user
    /\ report_item.projectId = item.projectId
    /\ report_item.fromDate = item.fromDate

\* a test that puts items together whatever their user
MatchesAnyUser(report_item, item) ==
    /\ report_item.projectId = item.projectId
    /\ same_bucket(bucket_size, Parse(report_item.fromDate), Parse(item.fromDate))

\* the test that puts an item together with a previous row
Matches(report_item, item) ==
    /\ report_item.user = item.user
    /\ report_item.projectId = item.projectId
    /\ same_bucket(bucket_size, Parse(report_item.fromDate), Parse(item.fromDate))

Least(S) == CHOOSE i \in S : \A j \in S : i <= j

\* the index of the first row that the item matches, 0 if there is none
FirstMatch(rows, item) ==
    IF \E i \in 1..Len(rows) : Matches(rows[i], item)
    THEN Least({i \in 1..Len(rows) : Matches(rows[i], item)})
    ELSE 0

\* report_item[kind] += quantity and report_item[kind + 'Cost'] += cost, the
\* two fields starting at 0 when the row does not have them yet
Added(report_item, kind, kind_cost, quantity, cost) ==
    IF kind \in DOMAIN report_item
    THEN [report_item EXCEPT ![kind] = @ + quantity, ![kind_cost] = @ + cost]
    ELSE report_item @@ (kind :> quantity) @@ (kind_cost :> cost)

\* the row after the item is merged into it
Merged(report_item, item) ==
    IF report_item.user # None
    THEN IF item.kind = "cpu"
         THEN Added(report_item, "cpu", "cpuCost", item.quantity, Cost(item))
         ELSE IF item.kind = "volume"
         THEN Added(report_item, "volume", "volumeCost", item.quantity, Cost(item))
         ELSE report_item
    ELSE [report_item EXCEPT !.image = @ + item.quantity, !.imageCost = @ + Cost(item)]

\* the fields of a new row that depend on the kind of its first item
KindFields(item) ==
    IF item.user # None
    THEN IF item.kind = "cpu"
         THEN [username |-> item.username,
               cpu |-> parse_decimal(item.quantity) * DecimalUnit, cpuCost |-> Cost(item)]
         ELSE IF item.kind = "volume"
         THEN [username |-> item.username,
               volume |-> parse_decimal(item.quantity) * DecimalUnit,
               volumeCost |-> Cost(item)]
         ELSE [username |-> item.username]
    ELSE [image |-> item.quantity, imageCost |-> Cost(item)]

\* a new row that keeps the window of the item it is made from
NewItemOwnWindow(item) ==
    [fromDate  |-> item.fromDate,
     toDate    |-> item.toDate,
     user      |-> item.user,
     projectId |-> item.projectId] @@ KindFields(item)

\* new_item: the row made when no previous row matches
NewItem(item) ==
    [fromDate  |-> IsoFormat(start_of_bucket(bucket_size, Parse(item.fromDate))),
     toDate    |-> IsoFormat(next_bucket(bucket_size, Parse(item.fromDate))),
     user      |-> item.user,
     projectId |-> item.projectId] @@ KindFields(item)

\* the rows with the item merged into row i, or appended when i is 0
FoldedAt(rows, item, i) ==
    IF i # 0
    THEN [rows EXCEPT ![i] = Merged(rows[i], item)]
    ELSE Append(rows, NewItem(item))

sort_results_into_buckets(rows, item) == FoldedAt(rows, item, FirstMatch(rows, item))

\* one step of reduce(sort_results_into_buckets, responses, list())
FoldItem ==
    /\ pc = "returned"
    /\ bucket_range > Len(date_ranges)
    /\ folded < Len(responses)
    /\ report' = sort_results_into_buckets(report, responses[folded + 1])
    /\ folded' = folded + 1
    /\ UNCHANGED <<pc, divide_vars, usage, user_id, requested_user, user,
                   project_list, role_map, billing_projects, user_projects,
                   bucket_range, responses, fetches>>
    /\ UNCHANGED probe_vars

\* the report is returned
Respond ==
    /\ pc = "returned"
    /\ bucket_range > Len(date_ranges)
    /\ folded = Len(responses)
    /\ pc' = "responded"
    /\ UNCHANGED <<divide_vars, report_vars>>
    /\ UNCHANGED probe_vars

\* the dict that generate_report_data returns
Response ==
    [fromDate |-> IsoFormat(requested_start),
     toDate   |-> IsoFormat(end_date),
     bucket   |-> bucket_size,
     entries  |-> report]

\* the tables a report is made under
ReportTables == {OnePeriod, TwoPeriods, NoPeriods}

\* the application is loaded with its pricing table and its usage store
InitReport ==
    /\ pc = "idle"
    /\ app_pricing_periods \in ReportTables
    /\ usage \in UsageTables
    /\ start_date = 0
    /\ end_date = 0
    /\ bucket_size = None
    /\ pricing_periods = 0
    /\ next_period = 0
    /\ period = 0
    /\ query_periods = 0
    /\ date_ranges = << >>
    /\ requested_start = 0
    /\ requested_bucket = None
    /\ walk = << >>
    /\ NoRequest
    /\ applied = << >>
    /\ NoCalls

NextReport ==
    \/ Request
    \/ BadRequest
    \/ Enter
    \/ PositionRaises
    \/ Position
    \/ Positioned
    \/ Bucket
    \/ Return
    \/ FetchBucket
    \/ FoldItem
    \/ Respond

\* a request to /reports, from the request to the response
SpecReport == InitReport /\ [][NextReport]_vars

\* ------------------------------------------------------------------------
\* The bucket functions applied by themselves
\* ------------------------------------------------------------------------

\* the days the functions are applied to: the first days of 2024, the leap
\* day and its neighbours, the days around the turn of 2024 to 2025 with the
\* ISO week that crosses it, a month's end, and the turn of 2025 to 2026
ProbeDays ==
    {DaysFromCivil(2024, 1, d) : d \in 1..2}
    \cup {DaysFromCivil(2024, 2, d) : d \in 28..29} \cup {DaysFromCivil(2024, 3, 1)}
    \cup {DaysFromCivil(2024, 12, d) : d \in 28..31}
    \cup {DaysFromCivil(2025, 1, d) : d \in 1..6}
    \cup {DaysFromCivil(2025, 1, 31), DaysFromCivil(2025, 2, 1)}
    \cup {DaysFromCivil(2025, 12, 29), DaysFromCivil(2026, 1, 1)}

\* midnight and the last tick of each of these days
ProbeDates == {z * TicksPerDay + k : z \in ProbeDays, k \in {0, TicksPerDay - 1}}

\* a call of same_bucket(start, end) of the strategy for size
ApplySameBucket ==
    /\ pc = "idle"
    /\ applied = << >>
    /\ \E size \in valid_bucket_sizes, start \in ProbeDates, end \in ProbeDates :
           applied' = [function |-> "same_bucket", bucket_size |-> size,
                       args |-> <<start, end>>,
                       returned |-> same_bucket(size, start, end)]
    /\ UNCHANGED <<pc, divide_vars, report_vars, calls, iterators>>

\* a call of start_of_bucket(current_date) of the strategy for size
ApplyStartOfBucket ==
    /\ pc = "idle"
    /\ applied = << >>
    /\ \E size \in valid_bucket_sizes, current_date \in ProbeDates :
           applied' = [function |-> "start_of_bucket", bucket_size |-> size,
                       args |-> <<current_date>>,
                       returned |-> start_of_bucket(size, current_date)]
    /\ UNCHANGED <<pc, divide_vars, report_vars, calls, iterators>>

\* a call of next_bucket(date_to_change) of the strategy for size
ApplyNextBucket ==
    /\ pc = "idle"
    /\ applied = << >>
    /\ \E size \in valid_bucket_sizes, date_to_change \in ProbeDates :
           applied' = [function |-> "next_bucket", bucket_size |-> size,
                       args |-> <<date_to_change>>,
                       returned |-> next_bucket(size, date_to_change)]
    /\ UNCHANGED <<pc, divide_vars, report_vars, calls, iterators>>

InitBuckets ==
    /\ pc = "idle"
    /\ app_pricing_periods = OnePeriod
    /\ usage = << >>
    /\ start_date = 0
    /\ end_date = 0
    /\ bucket_size = None
    /\ pricing_periods = 0
    /\ next_period = 0
    /\ period = 0
    /\ query_periods = 0
    /\ date_ranges = << >>
    /\ requested_start = 0
    /\ requested_bucket = None
    /\ walk = << >>
    /\ NoRequest
    /\ applied = << >>
    /\ NoCalls

NextBuckets ==
    \/ ApplySameBucket
    \/ ApplyStartOfBucket
    \/ ApplyNextBucket

\* one call of one of the three functions of get_bucket_functions
SpecBuckets == InitBuckets /\ [][NextBuckets]_vars

\* ------------------------------------------------------------------------
\* Two calls of divide_time_range side by side
\* ------------------------------------------------------------------------

\* the locals c of a call together with the count k of its iterator
Running(c, k) == [call |-> c, consumed |-> k]

\* next(pricing_periods, None) on an iterator over the table pp that has
\* handed out k periods: the index handed out, 0 for None
NextOf(pp, k) == IF k < Len(pp) THEN k + 1 ELSE 0

\* the count of that iterator afterwards
AfterNext(pp, k) == IF k < Len(pp) THEN k + 1 ELSE k

\* start_date >= period['period_end'] and next_period is not None
OverIn(pp, c) == c.start_date >= pp[c.period].period_end /\ c.next_period # 0

\* the call is entered: the bucket size is resolved, the iterator ref is
\* bound to pricing_periods and hands out the first period
EnterIn(pp, c, ref, k) ==
    Running([c EXCEPT !.bucket_size = Resolved(@),
                      !.pricing_periods = ref,
                      !.next_period = NextOf(pp, k),
                      !.period = NextOf(pp, k),
                      !.pc = "position"],
            AfterNext(pp, k))

\* the cursor moves on by one period when the period is over
TurnedIn(pp, c, k) ==
    IF OverIn(pp, c)
    THEN Running([c EXCEPT !.next_period = NextOf(pp, k),
                           !.period = IF NextOf(pp, k) # 0 THEN NextOf(pp, k) ELSE @],
                 AfterNext(pp, k))
    ELSE Running(c, k)

\* one test of the positioning loop and what follows it
PositionIn(pp, c, k) ==
    IF c.period = 0
    THEN Running([c EXCEPT !.pc = "raised"], k)
    ELSE IF OverIn(pp, c)
    THEN TurnedIn(pp, c, k)
    ELSE Running([c EXCEPT !.query_periods = MaxQueryPeriods,
                           !.date_ranges = << >>,
                           !.pc = "walk"], k)

\* period_end_date of the bucket that starts at c.start_date
EndIn(pp, c, next_bucket_date) ==
    IF c.start_date < pp[c.period].period_end
    THEN Min3(next_bucket_date, pp[c.period].period_end, c.end_date)
    ELSE Min2(next_bucket_date, c.end_date)

\* the bucket dict
BucketIn(pp, c, period_end_date) ==
    [start_date   |-> IsoFormat(c.start_date),
     end_date     |-> IsoFormat(period_end_date),
     cpu_price    |-> pp[c.period].cpu_price,
     volume_price |-> pp[c.period].volume_price,
     image_price  |-> pp[c.period].image_price]

\* the bucket is appended, the oldest one evicted once query_periods is
\* used up, and start_date moves on
EmittedIn(pp, c, period_end_date) ==
    [c EXCEPT !.date_ranges =
                  IF c.query_periods > 0
                  THEN Append(@, BucketIn(pp, c, period_end_date))
                  ELSE Tail(Append(@, BucketIn(pp, c, period_end_date))),
              !.query_periods = IF @ > 0 THEN @ - 1 ELSE @,
              !.start_date = period_end_date]

\* the rest of a turn of the walk, after the cursor step
EmitAfterTurn(pp, turned) ==
    Running(EmittedIn(pp, turned.call,
                      EndIn(pp, turned.call,
                            next_bucket(turned.call.bucket_size, turned.call.start_date))),
            turned.consumed)

\* one test of the walk's loop and the turn or the return that follows it
WalkIn(pp, c, k) ==
    IF c.start_date = c.end_date
    THEN Running([c EXCEPT !.pc = "returned"], k)
    ELSE EmitAfterTurn(pp, TurnedIn(pp, c, k))

\* one step of a call that has been entered
StepIn(pp, c, k) ==
    IF c.pc = "position"
    THEN PositionIn(pp, c, k)
    ELSE IF c.pc = "walk"
    THEN WalkIn(pp, c, k)
    ELSE Running(c, k)

\* the locals of a call at the moment it is made
CalledWith(start, end, size) ==
    [Idle EXCEPT !.pc = "call", !.start_date = start, !.end_date = end,
                 !.bucket_size = size, !.requested_start = start,
                 !.requested_bucket = size]

\* the tables, dates and sizes of the calls that run side by side
ConcurrentTables == {NoPeriods, TwoPeriods, GapPeriods}

ConcurrentStarts == {At(0, 1), At(2, 0)}

ConcurrentEnds == {At(3, 0), At(5, 1)}

ConcurrentSizes == {"daily", "weekly", None}

\* an iterator that all calls share
SharedIter(store) == 1

\* iter(app.pricing_periods): the reference of the iterator object that the
\* call makes, a new object at every call
Iter(store) == Len(store) + 1

\* the store of iterator objects once the object ref is in it
StoreWith(store, ref) == IF ref > Len(store) THEN Append(store, 0) ELSE store

\* call r after its entry, with the iterator ref
EnteredAt(r, ref) ==
    EnterIn(app_pricing_periods, calls[r], ref, StoreWith(iterators, ref)[ref])

\* call r after one more step
Stepped(r) ==
    StepIn(app_pricing_periods, calls[r], iterators[calls[r].pricing_periods])

\* the step is taken: the call's locals and its iterator change
Step(r) ==
    /\ calls' = [calls EXCEPT ![r] = Stepped(r).call]
    /\ iterators' = [iterators EXCEPT ![calls[r].pricing_periods] = Stepped(r).consumed]
    /\ UNCHANGED <<pc, divide_vars, report_vars, applied>>

\* divide_time_range(start_date, end_date, bucket_size) is called
CallOf(r) ==
    /\ calls[r].pc = "idle"
    /\ \E start \in ConcurrentStarts, end \in ConcurrentEnds, size \in ConcurrentSizes :
           calls' = [calls EXCEPT ![r] = CalledWith(start, end, size)]
    /\ UNCHANGED <<pc, divide_vars, report_vars, applied, iterators>>

\* the entry of the call up to the first test of the positioning loop
EnterOf(r) ==
    /\ calls[r].pc = "call"
    /\ calls' = [calls EXCEPT ![r] = EnteredAt(r, Iter(iterators)).call]
    /\ iterators' = [StoreWith(iterators, Iter(iterators))
                         EXCEPT ![Iter(iterators)] = EnteredAt(r, Iter(iterators)).consumed]
    /\ UNCHANGED <<pc, divide_vars, report_vars, applied>>

\* one test of the positioning loop
PositionOf(r) == calls[r].pc = "position" /\ Step(r)

\* one turn of the walk
BucketOf(r) ==
    calls[r].pc = "walk" /\ calls[r].start_date # calls[r].end_date /\ Step(r)

\* the walk ends and the call returns
ReturnOf(r) ==
    calls[r].pc = "walk" /\ calls[r].start_date = calls[r].end_date /\ Step(r)

InitConcurrent ==
    /\ pc = "idle"
    /\ app_pricing_periods \in ConcurrentTables
    /\ usage = << >>
    /\ start_date = 0
    /\ end_date = 0
    /\ bucket_size = None
    /\ pricing_periods = 0
    /\ next_period = 0
    /\ period = 0
    /\ query_periods = 0
    /\ date_ranges = << >>
    /\ requested_start = 0
    /\ requested_bucket = None
    /\ walk = << >>
    /\ NoRequest
    /\ applied = << >>
    /\ NoCalls

NextConcurrent ==
    \/ \E r \in Requests : CallOf(r)
    \/ \E r \in Requests : EnterOf(r)
    \/ \E r \in Requests : PositionOf(r)
    \/ \E r \in Requests : BucketOf(r)
    \/ \E r \in Requests : ReturnOf(r)

\* two calls whose steps are taken in any order
SpecConcurrent == InitConcurrent /\ [][NextConcurrent]_vars

\* ------------------------------------------------------------------------
\* Properties of divide_time_range
\* ------------------------------------------------------------------------

\* the call has returned a list for a range with start < end
ReturnedForward == pc = "returned" /\ requested_start < end_date

\* the buckets of the history, in order
WalkBuckets == [i \in 1..Len(walk) |-> walk[i].bucket]

Max2(a, b) == IF a >= b THEN a ELSE b

\* C1: for start < end the returned buckets are contiguous and do not
\* overlap: every bucket starts before it ends, every bucket's end is the next
\* bucket's start, and the last bucket ends at the requested end.
C1_Contiguous ==
    ReturnedForward =>
        /\ date_ranges # << >>
        /\ \A i \in 1..Len(date_ranges) :
               Parse(date_ranges[i].start_date) < Parse(date_ranges[i].end_date)
        /\ \A i \in 1..(Len(date_ranges) - 1) :
               date_ranges[i].end_date = date_ranges[i + 1].start_date
        /\ date_ranges[Len(date_ranges)].end_date = IsoFormat(end_date)

\* a returned list of several buckets, one of them cut short by a pricing
\* period's end
C1_Witness ==
    /\ ReturnedForward
    /\ Len(date_ranges) >= 3
    /\ \E i \in 1..Len(date_ranges) : date_ranges[i].end_date.time # 0

\* C2: the result never holds more than 62 buckets, however long the range.
C2_AtMost62 == Len(date_ranges) <= MaxQueryPeriods

\* a walk of more than 62 buckets has returned
C2_Witness ==
    pc = "returned" /\ Len(walk) > MaxQueryPeriods /\ Len(date_ranges) = MaxQueryPeriods

\* C3: the result is the last min(N, 62) buckets of the N buckets the walk
\* has appended so far, in order and unchanged; and the walk itself is whole:
\* it begins at the requested start and, on return, ends at the requested end.
C3_SlidingWindow ==
    /\ date_ranges
           = SubSeq(WalkBuckets, Max2(1, Len(walk) - MaxQueryPeriods + 1), Len(walk))
    /\ walk # << >> => walk[1].bucket.start_date = IsoFormat(requested_start)
    /\ (pc = "returned" /\ walk # << >>) =>
           walk[Len(walk)].bucket.end_date = IsoFormat(end_date)

\* buckets have been evicted and the walk went on to the requested end
C3_Witness ==
    /\ pc = "returned"
    /\ Len(walk) >= MaxQueryPeriods + 3
    /\ date_ranges[1] = walk[Len(walk) - MaxQueryPeriods + 1].bucket

\* activePeriod(t) with a fresh cursor: the first period whose end is after
\* t, the last period when every period has ended
RECURSIVE ActiveFrom(_, _)
ActiveFrom(i, t) ==
    IF i < Len(app_pricing_periods) /\ app_pricing_periods[i].period_end <= t
    THEN ActiveFrom(i + 1, t)
    ELSE i

ActivePeriod(t) == ActiveFrom(1, t)

SortedByStart ==
    \A i \in 1..(Len(app_pricing_periods) - 1) :
        app_pricing_periods[i].period_start <= app_pricing_periods[i + 1].period_start

\* the periods are not empty and none begins before the one before it ends
NonOverlapping ==
    /\ \A i \in 1..Len(app_pricing_periods) :
           app_pricing_periods[i].period_start < app_pricing_periods[i].period_end
    /\ \A i \in 1..(Len(app_pricing_periods) - 1) :
           app_pricing_periods[i].period_end <= app_pricing_periods[i + 1].period_start

\* bucket i of the walk carries the rates of the period active at its start
TaggedByActivePeriod(i) ==
    /\ walk[i].bucket.cpu_price
           = app_pricing_periods[ActivePeriod(Parse(walk[i].bucket.start_date))].cpu_price
    /\ walk[i].bucket.volume_price
           = app_pricing_periods[ActivePeriod(Parse(walk[i].bucket.start_date))].volume_price
    /\ walk[i].bucket.image_price
           = app_pricing_periods[ActivePeriod(Parse(walk[i].bucket.start_date))].image_price

CursorNeverDecreases ==
    \A i \in 1..(Len(walk) - 1) : walk[i].cursor <= walk[i + 1].cursor

\* C4 as claimed: for every table sorted by period_start, every bucket of the
\* walk carries the rates of activePeriod(bucket.start) and the cursor never
\* moves back.
C4_AsClaimed ==
    SortedByStart =>
        /\ \A i \in 1..Len(walk) : TaggedByActivePeriod(i)
        /\ CursorNeverDecreases

\* C4, amended: for every table of non-empty periods sorted by period_start
\* that do not overlap, every bucket of the walk carries the cpu, volume and
\* image rates of activePeriod(bucket.start); and for every table the cursor
\* never moves back.
C4_ActivePeriodRates ==
    /\ NonOverlapping => \A i \in 1..Len(walk) : TaggedByActivePeriod(i)
    /\ CursorNeverDecreases

\* a walk whose cursor moved on between two buckets, over a table without
\* overlap
C4_Witness ==
    /\ NonOverlapping
    /\ Len(walk) >= 3
    /\ \E i \in 1..(Len(walk) - 1) : walk[i].cursor < walk[i + 1].cursor

\* the request has a table to read and a range with start <= end
Walkable ==
    pc # "idle" /\ Len(app_pricing_periods) > 0 /\ requested_start <= end_date

\* C5: with a non-empty table and start <= end the walk ends: a turn moves
\* start_date strictly forward, start_date never passes end_date, the call
\* returns in the end, and for start = end it returns the empty list.
C5_Terminates ==
    /\ [](Walkable => start_date <= end_date)
    /\ [][Walkable /\ walk' # walk => start_date' > start_date]_vars
    /\ [](Walkable /\ pc = "returned" /\ requested_start = end_date
              => date_ranges = << >>)
    /\ (Walkable ~> pc = "returned")

\* a long walk has come to its end
C5_Witness ==
    Walkable /\ pc = "returned" /\ Len(walk) > MaxQueryPeriods /\ start_date = end_date

\* C6 as claimed: the first retained bucket starts at or before the
\* requested start, also when buckets have been evicted.
C6_AsClaimed ==
    ReturnedForward => Parse(date_ranges[1].start_date) <= requested_start

\* C6, amended: the first retained bucket starts at the requested start when
\* the walk appended at most 62 buckets, and strictly after it once buckets
\* have been evicted; it never starts before the requested start.
C6_FirstRetainedStart ==
    ReturnedForward =>
        IF Len(walk) <= MaxQueryPeriods
        THEN date_ranges[1].start_date = IsoFormat(requested_start)
        ELSE Parse(date_ranges[1].start_date) > requested_start

\* a list that lost its first buckets, from a start in the middle of a day
C6_Witness ==
    /\ ReturnedForward
    /\ Len(walk) > MaxQueryPeriods
    /\ TimeOf(requested_start) # 0
    /\ Parse(date_ranges[1].start_date) > requested_start

\* ------------------------------------------------------------------------
\* Properties of generate_report_data
\* ------------------------------------------------------------------------

\* the request has been read and its scope worked out
Scoped == pc \notin {"idle", "bad_request"}

\* the elements of a list
Range(seq) == {seq[i] : i \in 1..Len(seq)}

\* the caller's roles, read from role_map
HoldsRole(q) == q \in DOMAIN role_map

HoldsBilling(q) == q \in DOMAIN role_map /\ "billing" \in role_map[q]

\* the requested projects with the billing role, and those with a role other
\* than billing, in the order of the request
RequestedBilling == SelectSeq(project_list, HoldsBilling)

RequestedOwn == SelectSeq(project_list, LAMBDA q : HoldsRole(q) /\ ~HoldsBilling(q))

\* every query was made with the scope as it stands: the image query with
\* billing_projects alone, the others with user_projects and user as well
FetchesCarryScope ==
    \A f \in fetches :
        /\ f.billing = billing_projects
        /\ f.query # "image" => f.own = user_projects /\ f.user = user

\* the request names a viewing user who is not the caller
ViewingOther == Scoped /\ requested_user # None /\ requested_user # user_id

\* C7: when the viewing user differs from the caller, user_projects is the
\* requested projects in which the caller holds the billing role,
\* billing_projects holds no project (only the empty name), the effective user
\* is the requested one, no query is given a project in which the caller
\* lacks the billing role, and the request fails for no reason but an empty
\* pricing table.
C7_ViewingOtherScope ==
    ViewingOther =>
        /\ user_projects = RequestedBilling
        /\ Range(billing_projects) \cap Projects = {}
        /\ user = requested_user
        /\ FetchesCarryScope
        /\ \A f \in fetches : \A q \in (Range(f.billing) \cup Range(f.own)) \cap Projects :
               HoldsBilling(q)
        /\ pc = "raised" => app_pricing_periods = << >>

\* a report for another user was answered although a requested project in
\* which the caller has no billing role was left out
C7_Witness ==
    /\ ViewingOther
    /\ pc = "responded"
    /\ responses # << >>
    /\ \E q \in Range(project_list) : HoldsRole(q) /\ ~HoldsBilling(q)
    /\ \E q \in Range(project_list) : ~HoldsRole(q)

\* the request names no viewing user
ViewingDefault == Scoped /\ requested_user = None

\* C8: with no viewing user, billing_projects is the requested projects with
\* the billing role and user_projects the requested projects with a role but
\* not billing; the two share no project, a project without any role is in
\* neither, the effective user is the caller, and the queries get this scope.
C8_Partition ==
    ViewingDefault =>
        /\ billing_projects = RequestedBilling
        /\ user_projects = RequestedOwn
        /\ Range(billing_projects) \cap Range(user_projects) = {}
        /\ \A q \in Projects :
               ~HoldsRole(q) => q \notin Range(billing_projects) \cup Range(user_projects)
        /\ user = user_id
        /\ FetchesCarryScope

\* a request for three projects, one of each sort, was answered
C8_Witness ==
    /\ ViewingDefault
    /\ pc = "responded"
    /\ fetches # {}
    /\ billing_projects # << >>
    /\ user_projects # << >>
    /\ \E q \in Range(project_list) : ~HoldsRole(q)

\* the request names the caller as viewing user
ViewingSelf == Scoped /\ requested_user = user_id

\* C9: when the viewing user is the caller, user_projects is the projects
\* with a role but not billing followed by the billing projects, that is
\* every requested project in which the caller holds any role,
\* billing_projects holds no project (only the empty name), and the queries
\* ask for the caller's own usage in those projects.
C9_ViewingSelfScope ==
    ViewingSelf =>
        /\ user_projects = RequestedOwn \o RequestedBilling
        /\ Range(user_projects) = {q \in Range(project_list) : HoldsRole(q)}
        /\ Range(billing_projects) \cap Projects = {}
        /\ user = user_id
        /\ FetchesCarryScope

\* the caller's own report over a billing project and another project was
\* answered, with usage found
C9_Witness ==
    /\ ViewingSelf
    /\ pc = "responded"
    /\ responses # << >>
    /\ \E q \in Range(project_list) : HoldsBilling(q)
    /\ \E q \in Range(project_list) : HoldsRole(q) /\ ~HoldsBilling(q)

\* the identity of the row an item belongs to: user, project and the start
\* of the calendar bucket of its fromDate
EntryKey(item) ==
    <<item.user, item.projectId, start_of_bucket(bucket_size, Parse(item.fromDate))>>

\* C10: an item is merged into an existing row of equal user, equal
\* projectId and same bucket, and a row is made only when there is none: no
\* two rows of the report agree in user, projectId and bucket, and there is
\* one row for every such identity among the items folded so far.
C10_OneEntryPerKey ==
    /\ \A i \in 1..Len(report) : \A j \in (i + 1)..Len(report) :
           ~ /\ report[i].user = report[j].user
             /\ report[i].projectId = report[j].projectId
             /\ same_bucket(bucket_size, Parse(report[i].fromDate), Parse(report[j].fromDate))
    /\ Len(report) = Cardinality({EntryKey(responses[k]) : k \in 1..folded})

\* a report whose rows took in items of two buckets of one day, cut apart by
\* a change of prices
C10_Witness ==
    /\ pc = "responded"
    /\ Len(report) >= 2
    /\ folded > Len(report)
    /\ \E k \in 1..folded : responses[k].fromDate.time # 0
    /\ \E k \in 1..folded : responses[k].fromDate.time = 0

\* the items folded so far that no earlier item shares its identity with:
\* each of them made a row
Creators ==
    {k \in 1..folded :
        \A j \in 1..(k - 1) : EntryKey(responses[j]) # EntryKey(responses[k])}

\* the item that made row i of the report, 0 if the report has no such row
Creator(i) ==
    IF \E k \in Creators : Cardinality({j \in Creators : j <= k}) = i
    THEN CHOOSE k \in Creators : Cardinality({j \in Creators : j <= k}) = i
    ELSE 0

\* the items of one kind that belong to row i: the one that made it and those
\* merged into it
ItemsOf(i, kind) ==
    {k \in 1..folded :
        /\ responses[k].kind = kind
        /\ EntryKey(responses[k]) = EntryKey(responses[Creator(i)])}

RECURSIVE SumSeq(_)
SumSeq(s) == IF s = << >> THEN 0 ELSE Head(s) + SumSeq(Tail(s))

\* round(quantity x rate, 4) of an item, the quantity taken as it is: in
\* units of 0.0001
ExactCost(item) ==
    (item.quantity * item.price + 5 * DecimalUnit) \div (10 * DecimalUnit)

\* the sum over the items of row i of round(quantity x rate of the item's own
\* bucket, 4)
SumOfExactCosts(i, kind) ==
    SumSeq([k \in 1..folded |->
               IF k \in ItemsOf(i, kind) THEN ExactCost(responses[k]) ELSE 0])

\* the sum of the quantities of the items of row i
SumOfQuantities(i, kind) ==
    SumSeq([k \in 1..folded |->
               IF k \in ItemsOf(i, kind) THEN responses[k].quantity ELSE 0])

Kinds == {"cpu", "volume", "image"}

CostField(kind) ==
    IF kind = "cpu" THEN "cpuCost" ELSE IF kind = "volume" THEN "volumeCost" ELSE "imageCost"

\* C11: for every row and every kind, the row's cost is the sum over the
\* items merged into it, the one that made it included, of
\* round(item.quantity x rate of the item's own bucket, 4): each item is
\* rounded by itself and costed at its own rate.
C11_AsClaimed ==
    \A i \in 1..Len(report) : \A kind \in Kinds :
        ItemsOf(i, kind) # {} =>
            /\ CostField(kind) \in DOMAIN report[i]
            /\ report[i][CostField(kind)] = SumOfExactCosts(i, kind)

\* round(quantity x rate, 4) for a quantity and a rate, in units of 0.0001
RoundedCost(quantity, price) ==
    (quantity * price + 5 * DecimalUnit) \div (10 * DecimalUnit)

\* the one item of a kind that row i is made of, when it is made of one
OnlyItem(i, kind) == responses[CHOOSE k \in ItemsOf(i, kind) : TRUE]

\* C12: for every row and every kind, the row's quantity is the sum of the
\* quantities of all items of that identity and kind, whether an item made
\* the row or was merged into it; and the cost of an item is computed from the
\* quantity that the item adds to the row: a row of one item costs
\* round(the row's quantity x the item's rate, 4).
C12_AsClaimed ==
    \A i \in 1..Len(report) : \A kind \in Kinds :
        ItemsOf(i, kind) # {} =>
            /\ kind \in DOMAIN report[i]
            /\ report[i][kind] = SumOfQuantities(i, kind)
            /\ Cardinality(ItemsOf(i, kind)) = 1 =>
                   report[i][CostField(kind)]
                       = RoundedCost(report[i][kind], OnlyItem(i, kind).price)

\* the fromDate of the item that made row i
CreatedAt(i) == Parse(responses[Creator(i)].fromDate)

\* C13: every row of the report has the window
\* [start_of_bucket(t), next_bucket(start_of_bucket(t))) of the granularity in
\* force, t being the fromDate of the item that made it, whatever was merged
\* into the row since; the window's ends are calendar boundaries also when
\* that item came from a bucket cut short.
C13_EntryWindow ==
    \A i \in 1..Len(report) :
        /\ Creator(i) # 0
        /\ report[i].fromDate = IsoFormat(start_of_bucket(bucket_size, CreatedAt(i)))
        /\ report[i].toDate
               = IsoFormat(next_bucket(bucket_size, start_of_bucket(bucket_size, CreatedAt(i))))
        /\ start_of_bucket(bucket_size, Parse(report[i].fromDate))
               = Parse(report[i].fromDate)
        /\ start_of_bucket(bucket_size, Parse(report[i].toDate)) = Parse(report[i].toDate)

\* a row made from an item of a bucket that began at midday, with a later
\* item of another bucket merged into it
C13_Witness ==
    /\ pc = "responded"
    /\ \E i \in 1..Len(report) :
           /\ Creator(i) # 0
           /\ TimeOf(CreatedAt(i)) # 0
           /\ \E k \in ItemsOf(i, "cpu") :
                  k # Creator(i) /\ responses[k].fromDate # responses[Creator(i)].fromDate

\* the fields a row may have besides its identity and its window
UserFields == {"username", "cpu", "cpuCost", "volume", "volumeCost"}

ImageFields == {"image", "imageCost"}

\* C14: an image item (user None) is never put together with a row of a user
\* and an item of a user never with an image row: every row with a user has
\* no image field, every row without a user has image and imageCost and no
\* field of a user, is made of image items alone, and its image is the sum of
\* the image items of its project and bucket.
C14_ImageApart ==
    \A i \in 1..Len(report) :
        /\ Creator(i) # 0
        /\ report[i].user # None =>
               /\ DOMAIN report[i] \cap ImageFields = {}
               /\ ItemsOf(i, "image") = {}
        /\ report[i].user = None =>
               /\ DOMAIN report[i] \cap UserFields = {}
               /\ ImageFields \subseteq DOMAIN report[i]
               /\ ItemsOf(i, "cpu") \cup ItemsOf(i, "volume") = {}
               /\ report[i].image = SumOfQuantities(i, "image")
               /\ \A k \in ItemsOf(i, "image") :
                      /\ responses[k].projectId = report[i].projectId
                      /\ same_bucket(bucket_size, Parse(responses[k].fromDate),
                                     Parse(report[i].fromDate))

\* a report with an image row made of two items beside a user's row of the
\* same project and bucket
C14_Witness ==
    /\ pc = "responded"
    /\ \E i, j \in 1..Len(report) :
           /\ report[i].user = None
           /\ report[j].user # None
           /\ report[i].projectId = report[j].projectId
           /\ report[i].fromDate = report[j].fromDate
           /\ Cardinality(ItemsOf(i, "image")) >= 2

\* the request named a bucket size that is not a valid one, or none, and
\* divide_time_range has been entered
UnrecognizedSize ==
    /\ pc \notin {"idle", "bad_request", "call"}
    /\ requested_bucket \notin valid_bucket_sizes

\* bucket i of the walk is cut as the daily strategy cuts: it ends at the
\* midnight after its start at the latest, and before that midnight only at
\* the end of the range or at the end of a pricing period
CutDaily(i) ==
    /\ Parse(walk[i].bucket.end_date)
           <= next_bucket("daily", Parse(walk[i].bucket.start_date))
    /\ Parse(walk[i].bucket.end_date)
           < next_bucket("daily", Parse(walk[i].bucket.start_date)) =>
               \/ Parse(walk[i].bucket.end_date) = end_date
               \/ \E q \in 1..Len(app_pricing_periods) :
                      Parse(walk[i].bucket.end_date) = app_pricing_periods[q].period_end

\* C15: for a bucket-size name that is not a valid granularity, the absent
\* name included, divide_time_range raises nothing on account of the name (it
\* raises only for an empty pricing table), cuts the range by days, and
\* resolves the name to 'daily', which the report carries in its bucket field
\* and by which the rows of the report are put together.
C15_DefaultsToDaily ==
    UnrecognizedSize =>
        /\ bucket_size = "daily"
        /\ pc = "raised" => app_pricing_periods = << >>
        /\ \A i \in 1..Len(walk) : CutDaily(i)
        /\ pc = "responded" => Response.bucket = "daily"
        /\ \A i \in 1..Len(report) :
               Parse(report[i].toDate) = PlusDays(Parse(report[i].fromDate), 1)

\* a report asked for by a name that is no granularity, or by none, was
\* answered with rows of several days
C15_Witness ==
    /\ UnrecognizedSize
    /\ pc = "responded"
    /\ Len(walk) >= 3
    /\ Len(report) >= 2
    /\ \E i, j \in 1..Len(report) : report[i].fromDate # report[j].fromDate

\* ------------------------------------------------------------------------
\* Properties of divide_time_range when the pricing periods run out
\* ------------------------------------------------------------------------

LastPeriod == Len(app_pricing_periods)

\* bucket i of the walk was made with the cursor on the last period and
\* starts at or after that period's end
Exhausted(i) ==
    /\ walk[i].cursor = LastPeriod
    /\ Parse(walk[i].bucket.start_date) >= app_pricing_periods[LastPeriod].period_end

\* the walk stands at a date at or after the end of the last period
WalkingExhausted ==
    /\ pc = "walk"
    /\ period = LastPeriod
    /\ start_date >= app_pricing_periods[LastPeriod].period_end

\* C16: once the cursor is on the last pricing period, a bucket that starts
\* at or after that period's end is made without error, carries the last
\* period's rates and ends at min(next granularity boundary, range end); and
\* the walk still comes to its end, its last bucket ending at the range end.
C16_LastRatesReused ==
    /\ [](\A i \in 1..Len(walk) :
             Exhausted(i) =>
                 /\ walk[i].bucket.cpu_price = app_pricing_periods[LastPeriod].cpu_price
                 /\ walk[i].bucket.volume_price
                        = app_pricing_periods[LastPeriod].volume_price
                 /\ walk[i].bucket.image_price
                        = app_pricing_periods[LastPeriod].image_price
                 /\ Parse(walk[i].bucket.end_date)
                        = Min2(next_bucket(bucket_size, Parse(walk[i].bucket.start_date)),
                               end_date))
    /\ [](pc = "raised" => app_pricing_periods = << >>)
    /\ [](pc = "returned" /\ walk # << >> =>
              walk[Len(walk)].bucket.end_date = IsoFormat(end_date))
    /\ (WalkingExhausted ~> pc = "returned")

\* a walk has returned whose cursor reached the last period on the way and
\* which made several buckets after that period's end
C16_Witness ==
    /\ pc = "returned"
    /\ Len(app_pricing_periods) >= 2
    /\ \E i \in 1..Len(walk) : walk[i].cursor < LastPeriod
    /\ \E i \in 1..(Len(walk) - 2) :
           Exhausted(i) /\ Exhausted(i + 1) /\ Exhausted(i + 2)

\* ------------------------------------------------------------------------
\* Properties of the bucket functions
\* ------------------------------------------------------------------------

Called(function) == applied # << >> /\ applied.function = function

\* C17: for each of the four granularities and every instant d,
\* start_of_bucket(d) <= d < next_bucket(start_of_bucket(d)), and
\* next_bucket(d) is next_bucket(start_of_bucket(d)).
C17_BucketBounds ==
    /\ Called("start_of_bucket") =>
           /\ applied.returned <= applied.args[1]
           /\ applied.args[1] < next_bucket(applied.bucket_size, applied.returned)
    /\ Called("next_bucket") =>
           /\ applied.args[1] < applied.returned
           /\ applied.returned
                  = next_bucket(applied.bucket_size,
                                start_of_bucket(applied.bucket_size, applied.args[1]))

\* next_bucket was called for the last tick of Sunday 2025-01-05 under the
\* weekly strategy and returned the Monday that follows
C17_Witness ==
    /\ Called("next_bucket")
    /\ applied.bucket_size = "weekly"
    /\ applied.args[1] = DaysFromCivil(2025, 1, 5) * TicksPerDay + TicksPerDay - 1
    /\ applied.returned = DaysFromCivil(2025, 1, 6) * TicksPerDay

OnDay(t, y, m, d) == DayOf(t) = DaysFromCivil(y, m, d)

\* C18: for each granularity same_bucket(d, d) holds, and same_bucket(d1, d2)
\* holds exactly when start_of_bucket(d1) = start_of_bucket(d2); under the
\* weekly strategy 2024-12-30 and 2025-01-02 are in the same bucket, and
\* 2024-12-29 is in the bucket of neither.
C18_SameBucketAgrees ==
    Called("same_bucket") =>
        /\ applied.args[1] = applied.args[2] => applied.returned
        /\ applied.returned
               <=> start_of_bucket(applied.bucket_size, applied.args[1])
                       = start_of_bucket(applied.bucket_size, applied.args[2])
        /\ (/\ applied.bucket_size = "weekly"
            /\ OnDay(applied.args[1], 2024, 12, 30)
            /\ OnDay(applied.args[2], 2025, 1, 2)) => applied.returned
        /\ (/\ applied.bucket_size = "weekly"
            /\ OnDay(applied.args[1], 2024, 12, 29)
            /\ (OnDay(applied.args[2], 2024, 12, 30) \/ OnDay(applied.args[2], 2025, 1, 2)))
               => ~applied.returned

\* same_bucket was called under the weekly strategy for 2024-12-30 and
\* 2025-01-02, days of two calendar years, and returned true
C18_Witness ==
    /\ Called("same_bucket")
    /\ applied.bucket_size = "weekly"
    /\ OnDay(applied.args[1], 2024, 12, 30)
    /\ OnDay(applied.args[2], 2025, 1, 2)
    /\ applied.returned

\* ------------------------------------------------------------------------
\* Properties of the end of a bucket
\* ------------------------------------------------------------------------

StartOf(i) == Parse(walk[i].bucket.start_date)

EndOf(i) == Parse(walk[i].bucket.end_date)

\* the end of the period active at the start of bucket i
ActiveEnd(i) == app_pricing_periods[ActivePeriod(StartOf(i))].period_end

\* bucket i ends at min(next_bucket(start), end of the period active at its
\* start, end of the range)
EndsAtMinOfThree(i) ==
    EndOf(i) = Min3(next_bucket(bucket_size, StartOf(i)), ActiveEnd(i), end_date)

\* bucket i crosses no period end that lies after its start
CrossesNoPeriodEnd(i) ==
    \A q \in 1..Len(app_pricing_periods) :
        app_pricing_periods[q].period_end > StartOf(i) =>
            EndOf(i) <= app_pricing_periods[q].period_end

\* C20 as claimed, over the tables the data model allows (non-empty periods
\* that do not overlap): for start < end every bucket of the walk ends at
\* min(next_bucket(start), end of the pricing period active at its start,
\* requested end), and so crosses no period end that lies after its start.
C20_AsClaimed ==
    (NonOverlapping /\ requested_start < end_date) =>
        \A i \in 1..Len(walk) : EndsAtMinOfThree(i) /\ CrossesNoPeriodEnd(i)

\* C20, amended: over a table of non-empty periods that do not overlap, for
\* start < end, a bucket that starts before the end of the period active at
\* its start ends at min(next_bucket(start), that period's end, requested
\* end); a bucket that starts at or after the end of the last period ends at
\* min(next_bucket(start), requested end); and no bucket crosses a period end
\* that lies after its start.
C20_BucketEnd ==
    (NonOverlapping /\ requested_start < end_date) =>
        \A i \in 1..Len(walk) :
            /\ StartOf(i) < ActiveEnd(i) => EndsAtMinOfThree(i)
            /\ StartOf(i) >= ActiveEnd(i) =>
                   /\ ActivePeriod(StartOf(i)) = LastPeriod
                   /\ EndOf(i) = Min2(next_bucket(bucket_size, StartOf(i)), end_date)
            /\ CrossesNoPeriodEnd(i)

\* a walk with a bucket cut short by the end of its period, before the
\* calendar boundary and before the end of the range, and with a bucket made
\* after the last period's end
C20_Witness ==
    /\ pc = "returned"
    /\ NonOverlapping
    /\ requested_start < end_date
    /\ \E i \in 1..Len(walk) :
           /\ EndOf(i) = ActiveEnd(i)
           /\ EndOf(i) < next_bucket(bucket_size, StartOf(i))
           /\ EndOf(i) < end_date
    /\ \E i \in 1..Len(walk) : StartOf(i) >= ActiveEnd(i)

\* ------------------------------------------------------------------------
\* Properties of calls that run side by side
\* ------------------------------------------------------------------------

\* a call run to its end by itself
RECURSIVE RunFrom(_, _)
RunFrom(pp, running) ==
    IF running.call.pc \in {"position", "walk"}
    THEN RunFrom(pp, StepIn(pp, running.call, running.consumed))
    ELSE running

\* what divide_time_range comes to when it runs alone, with an iterator of
\* its own
Alone(pp, start, end, size) ==
    RunFrom(pp, EnterIn(pp, CalledWith(start, end, size), 1, 0)).call

\* the outcome of every call alone, worked out once
AloneTable ==
    [pp \in ConcurrentTables |->
        [start \in ConcurrentStarts |->
            [end \in ConcurrentEnds |->
                [size \in ConcurrentSizes |-> Alone(pp, start, end, size)]]]]

\* the outcome of call r, had it run alone
AloneOf(r) ==
    AloneTable[app_pricing_periods][calls[r].requested_start][calls[r].end_date]
              [calls[r].requested_bucket]

Finished(r) == calls[r].pc \in {"returned", "raised"}

Entered(r) == calls[r].pc \notin {"idle", "call"}

\* C19: when the steps of two calls of divide_time_range are taken in any
\* order, each call ends as it ends when it runs alone, with the same buckets,
\* the same rates and the same resolved bucket size: each call has an iterator
\* object of its own, and the pricing table is the same for both.
C19_RequestScopedCursor ==
    /\ \A r \in Requests :
           Finished(r) =>
               /\ calls[r].pc = AloneOf(r).pc
               /\ calls[r].date_ranges = AloneOf(r).date_ranges
               /\ calls[r].bucket_size = AloneOf(r).bucket_size
    /\ \A r, q \in Requests :
           (r # q /\ Entered(r) /\ Entered(q)) =>
               calls[r].pricing_periods # calls[q].pricing_periods

\* the call that was entered second has returned buckets of two rates while
\* the other call, entered first, is in the middle of its walk
C19_Witness ==
    \E r, q \in Requests :
        /\ calls[r].pc = "returned"
        /\ \E i, j \in 1..Len(calls[r].date_ranges) :
               calls[r].date_ranges[i].cpu_price # calls[r].date_ranges[j].cpu_price
        /\ calls[q].pc = "walk"
        /\ calls[q].date_ranges # << >>
        /\ calls[q].start_date # calls[q].end_date
        /\ calls[q].pricing_periods < calls[r].pricing_periods

\* ------------------------------------------------------------------------
\* Properties that tie the buckets of the walk to the rows of the report
\* ------------------------------------------------------------------------

\* bucket i of the walk is not empty and lies inside the calendar bucket of
\* its start
InsideOneBucket(i) ==
    /\ start_of_bucket(bucket_size, StartOf(i)) <= StartOf(i)
    /\ StartOf(i) < EndOf(i)
    /\ EndOf(i) <= next_bucket(bucket_size, StartOf(i))

\* row i of the report is the row of item k: same user, same project, and a
\* window that holds the whole of the item's bucket
HoldsItem(i, k) ==
    /\ report[i].user = responses[k].user
    /\ report[i].projectId = responses[k].projectId
    /\ Parse(report[i].fromDate) <= Parse(responses[k].fromDate)
    /\ Parse(responses[k].toDate) <= Parse(report[i].toDate)

\* C21: for start < end and every granularity, each bucket of the walk is
\* not empty and lies inside one calendar bucket:
\* start_of_bucket(b.start) <= b.start < b.end <= next_bucket(b.start); and so
\* every item that carries b.start as its fromDate is put into the row of
\* exactly the calendar bucket that holds the whole of b.
C21_InsideOneBucket ==
    requested_start < end_date =>
        /\ \A i \in 1..Len(walk) : InsideOneBucket(i)
        /\ \A k \in 1..folded :
               /\ Cardinality({i \in 1..Len(report) : HoldsItem(i, k)}) = 1
               /\ \A i \in 1..Len(report) :
                      HoldsItem(i, k) =>
                          /\ Parse(report[i].fromDate)
                                 = start_of_bucket(bucket_size, Parse(responses[k].fromDate))
                          /\ Parse(report[i].toDate)
                                 = next_bucket(bucket_size, Parse(responses[k].fromDate))
                          /\ responses[k].kind \in DOMAIN report[i]

\* a report was answered in which an item of a bucket that begins at midday
\* and ends before the calendar boundary went into a row that another item,
\* of another bucket, had made
C21_Witness ==
    /\ pc = "responded"
    /\ \E k \in 1..folded : \E i \in 1..Len(report) :
           /\ HoldsItem(i, k)
           /\ Creator(i) # 0
           /\ Creator(i) # k
           /\ responses[Creator(i)].fromDate # responses[k].fromDate
           /\ responses[k].fromDate.time # 0
           /\ Parse(responses[k].toDate)
                  < next_bucket(bucket_size, Parse(responses[k].fromDate))

\* ------------------------------------------------------------------------
\* Properties of the image usage in the report
\* ------------------------------------------------------------------------

\* the projects of the image rows of the report
ImageRowProjects == {report[i].projectId : i \in {j \in 1..Len(report) : report[j].user = None}}

\* the projects of the image records fetched so far
ImageRecordProjects ==
    {responses[k].projectId : k \in {j \in 1..Len(responses) : responses[j].kind = "image"}}

\* the store holds image usage of project q inside the range of the report
ImageUsageIn(q) ==
    \E n \in 1..Len(usage) :
        /\ usage[n].kind = "image"
        /\ usage[n].projectId = q
        /\ requested_start <= usage[n].at
        /\ usage[n].at < end_date

\* C22: image usage is asked for billing_projects alone, never for
\* user_projects. When a viewing user is named, the caller or another,
\* billing_projects holds no project (only the empty name) at the fetches and
\* the report has no image row of any project; when none is named the report
\* has image rows only of requested projects in which the caller holds the
\* billing role.
C22_ImagesForBillingOnly ==
    Scoped =>
        /\ \A f \in fetches :
               f.query = "image" => f.billing = billing_projects /\ f.user = None
        /\ requested_user # None =>
               /\ Range(billing_projects) \cap Projects = {}
               /\ ImageRecordProjects \cap Projects = {}
               /\ ImageRowProjects \cap Projects = {}
        /\ requested_user = None =>
               /\ \A q \in ImageRecordProjects \cup ImageRowProjects :
                      q \in Range(project_list) /\ HoldsBilling(q)
               /\ (ImageRecordProjects \cup ImageRowProjects) \cap Range(user_projects) = {}

\* a report for a named user was answered with rows of a project whose image
\* usage inside the range was left out
C22_Witness ==
    /\ pc = "responded"
    /\ requested_user # None
    /\ fetches # {}
    /\ \E i \in 1..Len(report) :
           /\ report[i].projectId \in Range(user_projects)
           /\ HoldsBilling(report[i].projectId)
           /\ ImageUsageIn(report[i].projectId)

====
